---------------------------- MODULE Spec2Model ----------------------------
(***************************************************************************)
(* The Dialog fragment of vcon-utils (src/dialog.py) as a state machine.   *)
(*                                                                         *)
(* A Python object is modelled by its attribute dictionary: a function     *)
(* from the names of the attributes that exist to their values.            *)
(* hasattr is membership in the DOMAIN, setattr extends or overrides the   *)
(* function, delattr restricts it.                                         *)
(*                                                                         *)
(* Values:                                                                 *)
(*   - type, mimetype, alg, encoding, disposition: TLA+ strings (they are  *)
(*     only ever compared), with None the Python None;                     *)
(*   - url, filename, header values that the code splits or parses:        *)
(*     sequences of one-character strings, with NoneStr the Python None;   *)
(*   - body, signature: sequences of code points (naturals);               *)
(*   - raw content: sequences of bytes (0..255);                           *)
(*   - meta, metadata, kwargs: functions from keys to values.              *)
(***************************************************************************)
EXTENDS Integers, Sequences, FiniteSets, TLC

VARIABLES
    self,   \* the Dialog object (its __dict__), or NoObject
    pre,    \* the object as it was before the last call
    call,   \* the last call: operation, arguments, response, exception
    calls   \* number of mutator calls made on the object

vars == <<self, pre, call, calls>>

(***************************************************************************)
(* Bounds of the model.                                                    *)
(***************************************************************************)
\* mutator calls made on one object
MaxCalls == 1
\* length of a fetched raw content, in bytes
MaxRawLen == 2
\* length of an inline body, in characters
MaxBodyLen == 1

(***************************************************************************)
(* Python values                                                           *)
(***************************************************************************)
None == "None"
NoneStr == <<"None">>
NoObject == [k \in {} |-> None]
EmptyDict == [k \in {} |-> 0]

hasattr(o, k) == k \in DOMAIN o
setattr(o, k, v) == [x \in DOMAIN o \cup {k} |-> IF x = k THEN v ELSE o[x]]
delattr(o, k) == [x \in DOMAIN o \ {k} |-> o[x]]

\* dict.update
update(m, n) == [x \in DOMAIN m \cup DOMAIN n |-> IF x \in DOMAIN n THEN n[x] ELSE m[x]]

\* truth value of an atomic string or None, and of a character string or None
truthy(v) == v # None /\ v # ""
truthyStr(v) == v # NoneStr /\ v # <<>>

(***************************************************************************)
(* str.split, str.lower                                                    *)
(***************************************************************************)
RECURSIVE split(_, _)
split(s, sep) ==
    IF \A i \in 1..Len(s) : s[i] # sep
    THEN <<s>>
    ELSE LET i == CHOOSE i \in 1..Len(s) :
                      s[i] = sep /\ \A j \in 1..(i - 1) : s[j] # sep
         IN  <<SubSeq(s, 1, i - 1)>> \o split(SubSeq(s, i + 1, Len(s)), sep)

last(parts) == parts[Len(parts)]

UpperCase == <<"A","B","C","D","E","F","G","H","I","J","K","L","M",
               "N","O","P","Q","R","S","T","U","V","W","X","Y","Z">>
LowerCase == <<"a","b","c","d","e","f","g","h","i","j","k","l","m",
               "n","o","p","q","r","s","t","u","v","w","x","y","z">>

lowerChar(c) ==
    IF \E i \in 1..Len(UpperCase) : UpperCase[i] = c
    THEN LowerCase[CHOOSE i \in 1..Len(UpperCase) : UpperCase[i] = c]
    ELSE c

lower(s) == [i \in 1..Len(s) |-> lowerChar(s[i])]

(***************************************************************************)
(* int(str) on a header value: decimal digits, ValueError otherwise.       *)
(***************************************************************************)
Digits == <<"0","1","2","3","4","5","6","7","8","9">>

isDigit(c) == \E i \in 1..Len(Digits) : Digits[i] = c
digitValue(c) == (CHOOSE i \in 1..Len(Digits) : Digits[i] = c) - 1

int_ok(s) == Len(s) > 0 /\ \A i \in 1..Len(s) : isDigit(s[i])

RECURSIVE int(_)
int(s) ==
    IF Len(s) = 0 THEN 0
    ELSE int(SubSeq(s, 1, Len(s) - 1)) * 10 + digitValue(s[Len(s)])

(***************************************************************************)
(* str.encode() and bytes.decode('utf-8'): UTF-8, strict.                  *)
(***************************************************************************)
encodeChar(cp) ==
    IF cp < 128 THEN <<cp>>
    ELSE IF cp < 2048 THEN <<192 + cp \div 64, 128 + (cp % 64)>>
    ELSE IF cp < 65536
         THEN <<224 + cp \div 4096, 128 + ((cp \div 64) % 64), 128 + (cp % 64)>>
         ELSE <<240 + cp \div 262144, 128 + ((cp \div 4096) % 64),
                128 + ((cp \div 64) % 64), 128 + (cp % 64)>>

RECURSIVE encode(_)
encode(s) ==
    IF Len(s) = 0 THEN <<>>
    ELSE encodeChar(s[1]) \o encode(SubSeq(s, 2, Len(s)))

DecodeError == [ok |-> FALSE, text |-> <<>>]

RECURSIVE decode(_)
decode(b) ==
    IF Len(b) = 0 THEN [ok |-> TRUE, text |-> <<>>]
    ELSE
      LET b1 == b[1]
          n == IF b1 < 128 THEN 1
               ELSE IF b1 \in 194..223 THEN 2
               ELSE IF b1 \in 224..239 THEN 3
               ELSE IF b1 \in 240..244 THEN 4
               ELSE 0
          cont(i) == i <= Len(b) /\ b[i] \in 128..191
          valid ==
              \/ n = 1
              \/ n = 2 /\ cont(2)
              \/ /\ n = 3 /\ cont(2) /\ cont(3)
                 /\ (b1 = 224 => b[2] >= 160)
                 /\ (b1 = 237 => b[2] <= 159)
              \/ /\ n = 4 /\ cont(2) /\ cont(3) /\ cont(4)
                 /\ (b1 = 240 => b[2] >= 144)
                 /\ (b1 = 244 => b[2] <= 143)
          cp == IF n = 1 THEN b1
                ELSE IF n = 2 THEN (b1 - 192) * 64 + (b[2] - 128)
                ELSE IF n = 3
                     THEN (b1 - 224) * 4096 + (b[2] - 128) * 64 + (b[3] - 128)
                     ELSE (b1 - 240) * 262144 + (b[2] - 128) * 4096
                          + (b[3] - 128) * 64 + (b[4] - 128)
          rest == decode(SubSeq(b, n + 1, Len(b)))
      IN  IF ~valid THEN DecodeError
          ELSE IF ~rest.ok THEN DecodeError
          ELSE [ok |-> TRUE, text |-> <<cp>> \o rest.text]

(***************************************************************************)
(* base64.urlsafe_b64encode / urlsafe_b64decode over bytes.  The encoded   *)
(* bytes are ASCII; index 0..63 of the alphabet A-Z a-z 0-9 - _ and the    *)
(* pad character '='.                                                      *)
(***************************************************************************)
b64char(i) ==
    IF i < 26 THEN 65 + i
    ELSE IF i < 52 THEN 97 + (i - 26)
    ELSE IF i < 62 THEN 48 + (i - 52)
    ELSE IF i = 62 THEN 45
    ELSE 95

RECURSIVE urlsafe_b64encode(_)
urlsafe_b64encode(b) ==
    IF Len(b) = 0 THEN <<>>
    ELSE IF Len(b) = 1
    THEN <<b64char(b[1] \div 4), b64char((b[1] % 4) * 16), 61, 61>>
    ELSE IF Len(b) = 2
    THEN <<b64char(b[1] \div 4), b64char((b[1] % 4) * 16 + b[2] \div 16),
           b64char((b[2] % 16) * 4), 61>>
    ELSE <<b64char(b[1] \div 4), b64char((b[1] % 4) * 16 + b[2] \div 16),
           b64char((b[2] % 16) * 4 + b[3] \div 64), b64char(b[3] % 64)>>
         \o urlsafe_b64encode(SubSeq(b, 4, Len(b)))

isB64(c) == \E i \in 0..63 : b64char(i) = c
b64index(c) == CHOOSE i \in 0..63 : b64char(i) = c

B64Error == [ok |-> FALSE, bytes |-> <<>>]

\* Decoding of a padded group of four characters; the input is rejected when its
\* length is not a multiple of four or a character is outside the alphabet.
RECURSIVE urlsafe_b64decode(_)
urlsafe_b64decode(t) ==
    IF Len(t) = 0 THEN [ok |-> TRUE, bytes |-> <<>>]
    ELSE IF Len(t) < 4 THEN B64Error
    ELSE
      LET c == SubSeq(t, 1, 4)
          final == Len(t) = 4
          pads == IF c[4] # 61 THEN 0 ELSE IF c[3] # 61 THEN 1 ELSE 2
          wellFormed ==
              /\ isB64(c[1]) /\ isB64(c[2])
              /\ (pads < 2 => isB64(c[3]))
              /\ (pads < 1 => isB64(c[4]))
              /\ (pads > 0 => final)
          i1 == b64index(c[1])
          i2 == b64index(c[2])
          i3 == b64index(c[3])
          i4 == b64index(c[4])
          group ==
              IF pads = 2 THEN <<i1 * 4 + i2 \div 16>>
              ELSE IF pads = 1
              THEN <<i1 * 4 + i2 \div 16, (i2 % 16) * 16 + i3 \div 4>>
              ELSE <<i1 * 4 + i2 \div 16, (i2 % 16) * 16 + i3 \div 4,
                     (i3 % 4) * 64 + i4>>
          rest == urlsafe_b64decode(SubSeq(t, 5, Len(t)))
      IN  IF ~wellFormed THEN B64Error
          ELSE IF ~rest.ok THEN B64Error
          ELSE [ok |-> TRUE, bytes |-> group \o rest.bytes]

(***************************************************************************)
(* hashlib.sha256(...).digest().  The library's digest is stood in for by  *)
(* a two-byte rolling digest of the bytes: a deterministic function of the *)
(* byte string and of nothing else, whose length leaves the same base64    *)
(* padding (one '=') as the 32 bytes of SHA-256.                           *)
(***************************************************************************)
RECURSIVE sha256_state(_)
sha256_state(b) ==
    IF Len(b) = 0 THEN 5381
    ELSE (sha256_state(SubSeq(b, 1, Len(b) - 1)) * 33 + b[Len(b)] + 1) % 65536

sha256_digest(b) == <<sha256_state(b) \div 256, sha256_state(b) % 256>>

(***************************************************************************)
(* Exceptions.  A method's result is the object as the call leaves it      *)
(* (for a constructor that raises: no object), the exception raised and    *)
(* the network request it made.                                            *)
(***************************************************************************)
NoExc == [kind |-> "none", arg |-> ""]
Raise(kind, arg) == [kind |-> kind, arg |-> arg]

Result(o, exc, net) == [obj |-> o, exc |-> exc, net |-> net]

\* requests.head / requests.get: the response the code reads
Response(status, content_type, content_length, content) ==
    [status_code |-> status, content_type |-> content_type,
     content_length |-> content_length, content |-> content]

(***************************************************************************)
(* Type classifier                                                         *)
(***************************************************************************)
VALID_TYPES == {"recording", "text", "transfer", "incomplete", "audio", "video"}

AUDIO_MIMETYPES ==
    {"audio/x-wav", "audio/wav", "audio/wave", "audio/mpeg", "audio/mp3",
     "audio/ogg", "audio/webm", "audio/x-m4a", "audio/aac"}

VIDEO_MIMETYPES ==
    {"video/x-mp4", "video/ogg", "video/mp4", "video/quicktime", "video/webm",
     "video/x-msvideo", "video/x-matroska", "video/mpeg", "video/x-flv",
     "video/3gpp", "video/x-m4v"}

is_external_data(o) == hasattr(o, "url")
is_inline_data(o) == ~is_external_data(o)

is_audio(o) == hasattr(o, "mimetype") /\ o.mimetype \in AUDIO_MIMETYPES

is_video(o) ==
    LET type_is_video == hasattr(o, "type") /\ o.type = "video"
        mimetype_is_video == hasattr(o, "mimetype") /\ o.mimetype \in VIDEO_MIMETYPES
    IN  type_is_video \/ mimetype_is_video

(***************************************************************************)
(* The extension table, as written in __init__ and as written again in     *)
(* add_video_data.                                                         *)
(***************************************************************************)
init_ext_mimetype(ext) ==
    IF ext = <<"m","p","4">> THEN "video/mp4"
    ELSE IF ext = <<"m","o","v">> THEN "video/quicktime"
    ELSE IF ext = <<"w","e","b","m">> THEN "video/webm"
    ELSE IF ext = <<"a","v","i">> THEN "video/x-msvideo"
    ELSE IF ext = <<"m","k","v">> THEN "video/x-matroska"
    ELSE IF ext \in {<<"m","p","g">>, <<"m","p","e","g">>} THEN "video/mpeg"
    ELSE IF ext = <<"f","l","v">> THEN "video/x-flv"
    ELSE IF ext = <<"3","g","p">> THEN "video/3gpp"
    ELSE IF ext = <<"m","4","v">> THEN "video/x-m4v"
    ELSE "video/mp4"

video_ext_mimetype(ext) ==
    IF ext = <<"m","p","4">> THEN "video/mp4"
    ELSE IF ext = <<"m","o","v">> THEN "video/quicktime"
    ELSE IF ext = <<"w","e","b","m">> THEN "video/webm"
    ELSE IF ext = <<"a","v","i">> THEN "video/x-msvideo"
    ELSE IF ext = <<"m","k","v">> THEN "video/x-matroska"
    ELSE IF ext \in {<<"m","p","g">>, <<"m","p","e","g">>} THEN "video/mpeg"
    ELSE IF ext = <<"f","l","v">> THEN "video/x-flv"
    ELSE IF ext = <<"3","g","p">> THEN "video/3gpp"
    ELSE IF ext = <<"m","4","v">> THEN "video/x-m4v"
    ELSE "video/mp4"

(***************************************************************************)
(* Dialog.__init__(type, start, ..., **kwargs).  `named` holds the named   *)
(* parameters that were passed a value other than None (type and start     *)
(* among them), `kwargs` the extension fields that are not None.           *)
(***************************************************************************)
\* a datetime object, as passed for start
Datetime == "datetime(2024, 1, 1, 0, 0)"
\* the strings dateutil's parser accepts, with the datetime it returns
Parsable == {"2024-01-01T00:00:00", "Jan 1 2024"}
\* datetime.isoformat()
isoformat(dt) == "2024-01-01T00:00:00"

\* dateutil.parser.parse on a string it accepts
parse(s) == Datetime

\* lines 191-195: start, converted
init_start(start) ==
    IF start = Datetime THEN isoformat(start)
    ELSE isoformat(parse(start))

\* lines 202-211: meta and metadata, reconciled
init_meta(o) ==
    IF ~hasattr(o, "metadata") /\ hasattr(o, "meta")
    THEN setattr(o, "metadata", o.meta)
    ELSE IF ~hasattr(o, "meta") /\ hasattr(o, "metadata")
    THEN setattr(o, "meta", o.metadata)
    ELSE IF ~hasattr(o, "metadata") /\ ~hasattr(o, "meta")
    THEN setattr(setattr(o, "metadata", EmptyDict), "meta", EmptyDict)
    ELSE o

\* lines 213-216: the extension fields, assigned after the named ones
init_kwargs(o, kwargs) == update(o, kwargs)

\* the bug of testing the disposition's truth value instead of its presence
init_incomplete_fails_falsy(type, o) ==
    type = "incomplete" /\ (~hasattr(o, "disposition") \/ ~truthy(o.disposition))

\* line 219: the check of a fragment of type "incomplete"
init_incomplete_fails(type, o) == type = "incomplete" /\ ~hasattr(o, "disposition")

\* lines 222-250: the mimetype of a video fragment that has none
init_video_mimetype(type, o) ==
    IF type = "video" /\ ~hasattr(o, "mimetype")
    THEN IF hasattr(o, "filename") /\ truthyStr(o.filename)
         THEN setattr(o, "mimetype",
                      init_ext_mimetype(lower(last(split(o.filename, ".")))))
         ELSE setattr(o, "mimetype", "video/mp4")
    ELSE o

\* the bug of a type that is not validated
init_type_invalid_unchecked(type) == FALSE

\* line 188
init_type_invalid(type) == type \notin VALID_TYPES

\* lines 194-195: dateutil's parser raises on a string it cannot read
init_start_fails(named) ==
    hasattr(named, "start") /\ named.start # Datetime /\ named.start \notin Parsable

Dialog_init(named, kwargs) ==
    IF init_type_invalid(named.type)
    THEN Result(NoObject, Raise("ValueError", named.type), "none")
    ELSE IF init_start_fails(named)
    THEN Result(NoObject, Raise("ParserError", named.start), "none")
    ELSE
      LET o1 == IF hasattr(named, "start")
                THEN setattr(named, "start", init_start(named.start))
                ELSE named
          o2 == init_meta(o1)
          o3 == init_kwargs(o2, kwargs)
      IN  IF init_incomplete_fails(named.type, o3)
          THEN Result(NoObject, Raise("ValueError", "disposition"), "none")
          ELSE Result(init_video_mimetype(named.type, o3), NoExc, "none")

(***************************************************************************)
(* Dialog.add_external_data(url, filename=None, mimetype=None)             *)
(***************************************************************************)
\* the bug of a query string left in the file name
external_filename_query(url, filename) ==
    IF truthyStr(filename) THEN filename
    ELSE last(split(url, "/"))

\* lines 302-308
external_filename(url, filename) ==
    IF truthyStr(filename) THEN filename
    ELSE last(split(split(url, "?")[1], "/"))

\* lines 296-300
external_mimetype(mimetype, content_type) ==
    IF truthy(mimetype) THEN mimetype ELSE content_type

\* the bug (or the repair) of assigning url only once the HEAD has succeeded
add_external_data_url_late(o, url, filename, mimetype, response) ==
    LET o1 == setattr(o, "url", url)
    IN  IF response.status_code = 200
        THEN LET content_type == response.content_type
                 content_length == response.content_length
                 o2 == setattr(o1, "mimetype", external_mimetype(mimetype, content_type))
                 o3 == setattr(o2, "filename", external_filename(url, filename))
                 o4 == setattr(setattr(o3, "alg", "external-reference"),
                               "encoding", "none")
                 o5 == IF hasattr(o4, "metadata") THEN o4
                       ELSE setattr(o4, "metadata", EmptyDict)
             IN  IF is_video(o4) /\ truthyStr(content_length)
                 THEN IF int_ok(content_length)
                      THEN Result(setattr(o5, "metadata",
                                          update(o5.metadata,
                                                 [content_length |-> int(content_length)])),
                                  NoExc, "HEAD")
                      ELSE Result(o5, Raise("ValueError", "content_length"), "HEAD")
                 ELSE Result(o4, NoExc, "HEAD")
        ELSE Result(o, Raise("Exception", "status"), "HEAD")

add_external_data(o, url, filename, mimetype, response) ==
    LET o1 == setattr(o, "url", url)
    IN  IF response.status_code = 200
        THEN LET content_type == response.content_type
                 content_length == response.content_length
                 o2 == setattr(o1, "mimetype", external_mimetype(mimetype, content_type))
                 o3 == setattr(o2, "filename", external_filename(url, filename))
                 o4 == setattr(setattr(o3, "alg", "external-reference"),
                               "encoding", "none")
                 o5 == IF hasattr(o4, "metadata") THEN o4
                       ELSE setattr(o4, "metadata", EmptyDict)
             IN  IF is_video(o4) /\ truthyStr(content_length)
                 THEN IF int_ok(content_length)
                      THEN Result(setattr(o5, "metadata",
                                          update(o5.metadata,
                                                 [content_length |-> int(content_length)])),
                                  NoExc, "HEAD")
                      ELSE Result(o5, Raise("ValueError", "content_length"), "HEAD")
                 ELSE Result(o4, NoExc, "HEAD")
        ELSE Result(o1, Raise("Exception", "status"), "HEAD")

(***************************************************************************)
(* Dialog.add_inline_data(body, filename, mimetype)                        *)
(***************************************************************************)
\* base64.urlsafe_b64encode(hashlib.sha256(raw).digest()).decode()
signature_of(raw) == decode(urlsafe_b64encode(sha256_digest(raw))).text

\* the bug of encoding the body's bytes instead of their digest
add_inline_data_unhashed(o, body, filename, mimetype) ==
    LET o1 == setattr(o, "body", body)
        o2 == setattr(o1, "mimetype", mimetype)
        o3 == setattr(o2, "filename", filename)
        o4 == setattr(o3, "alg", "sha256")
        o5 == setattr(o4, "encoding", "base64url")
    IN  Result(setattr(o5, "signature", decode(urlsafe_b64encode(encode(o5.body))).text),
               NoExc, "none")

add_inline_data(o, body, filename, mimetype) ==
    LET o1 == setattr(o, "body", body)
        o2 == setattr(o1, "mimetype", mimetype)
        o3 == setattr(o2, "filename", filename)
        o4 == setattr(o3, "alg", "sha256")
        o5 == setattr(o4, "encoding", "base64url")
    IN  Result(setattr(o5, "signature", signature_of(encode(o5.body))), NoExc, "none")

(***************************************************************************)
(* Dialog.add_video_data(source, metadata=None, is_external=True, **kwargs)*)
(* `metadata` None and {} behave alike (line 372) and are both EmptyDict;  *)
(* kwargs.get gives None for a key that was not passed.                    *)
(***************************************************************************)
kwargs_get_str(kwargs, k) == IF k \in DOMAIN kwargs THEN kwargs[k] ELSE NoneStr
kwargs_get(kwargs, k) == IF k \in DOMAIN kwargs THEN kwargs[k] ELSE None

\* lines 363-374
video_merge_metadata(o, metadata) ==
    LET o1 == IF hasattr(o, "metadata") THEN o ELSE setattr(o, "metadata", EmptyDict)
        o2 == IF hasattr(o1, "meta") THEN o1 ELSE setattr(o1, "meta", EmptyDict)
    IN  IF DOMAIN metadata # {}
        THEN setattr(setattr(o2, "metadata", update(o2.metadata, metadata)),
                     "meta", update(o2.meta, metadata))
        ELSE o2

\* lines 376-380
video_filename(source, is_external, kwargs) ==
    LET filename == kwargs_get_str(kwargs, "filename")
    IN  IF is_external /\ ~truthyStr(filename)
        THEN last(split(split(source, "?")[1], "/"))
        ELSE filename

\* lines 382-406
video_mimetype(filename, kwargs) ==
    LET mimetype == kwargs_get(kwargs, "mimetype")
    IN  IF ~truthy(mimetype) /\ truthyStr(filename)
        THEN video_ext_mimetype(lower(last(split(filename, "."))))
        ELSE mimetype

\* lines 414-417
video_kwargs(o, kwargs) ==
    update(o, [k \in DOMAIN kwargs \ {"filename", "mimetype"} |-> kwargs[k]])

add_video_data(o, source, metadata, is_external, kwargs, response) ==
    LET o1 == setattr(o, "type", "video")
        o2 == video_merge_metadata(o1, metadata)
        filename == video_filename(source, is_external, kwargs)
        mimetype == video_mimetype(filename, kwargs)
        r == IF is_external
             THEN add_external_data(o2, source, filename, mimetype, response)
             ELSE add_inline_data(o2, source, filename, mimetype)
    IN  IF r.exc # NoExc THEN r
        ELSE Result(video_kwargs(r.obj, kwargs), NoExc, r.net)

(***************************************************************************)
(* Dialog.update_video_metadata(metadata)                                  *)
(***************************************************************************)
PROMOTED_KEYS == {"resolution", "frame_rate", "codec", "bitrate", "duration", "thumbnail"}

update_video_metadata(o, metadata) ==
    LET o1 == IF hasattr(o, "metadata") THEN o ELSE setattr(o, "metadata", EmptyDict)
        o2 == IF hasattr(o1, "meta") THEN o1 ELSE setattr(o1, "meta", EmptyDict)
        o3 == setattr(o2, "metadata", update(o2.metadata, metadata))
        o4 == setattr(o3, "meta", update(o3.meta, metadata))
    IN  Result(update(o4, [k \in DOMAIN metadata \cap PROMOTED_KEYS |-> metadata[k]]),
               NoExc, "none")

(***************************************************************************)
(* Dialog.to_inline_data()                                                 *)
(***************************************************************************)
\* the bug of trying the text first, whatever the media type
inline_body_text_first(o, raw_content) ==
    IF decode(raw_content).ok
    THEN setattr(setattr(o, "body", decode(raw_content).text), "encoding", "none")
    ELSE setattr(setattr(o, "body", decode(urlsafe_b64encode(raw_content)).text),
                 "encoding", "base64url")

\* lines 635-647: body and encoding
inline_body(o, raw_content) ==
    IF is_video(o) \/ is_audio(o)
    THEN setattr(setattr(o, "body", decode(urlsafe_b64encode(raw_content)).text),
                 "encoding", "base64url")
    ELSE IF decode(raw_content).ok
    THEN setattr(setattr(o, "body", decode(raw_content).text), "encoding", "none")
    ELSE setattr(setattr(o, "body", decode(urlsafe_b64encode(raw_content)).text),
                 "encoding", "base64url")

\* lines 649-651
inline_mimetype(o, response) ==
    IF ~hasattr(o, "mimetype") \/ ~truthy(o.mimetype)
    THEN setattr(o, "mimetype", response.content_type)
    ELSE o

\* the bug of signing the stored body instead of the bytes fetched
inline_signature_of_body(o, raw_content) ==
    setattr(setattr(o, "alg", "sha256"), "signature", signature_of(encode(o.body)))

\* lines 655-659
inline_signature(o, raw_content) ==
    setattr(setattr(o, "alg", "sha256"), "signature", signature_of(raw_content))

\* lines 661-663
inline_filename(o) ==
    IF ~hasattr(o, "filename")
    THEN setattr(o, "filename", last(split(o.url, "/")))
    ELSE o

\* lines 632-666, the path of a 200 response
inline_success(o, response) ==
    LET raw_content == response.content
        o1 == inline_body(o, raw_content)
        o2 == inline_mimetype(o1, response)
        o3 == inline_signature(o2, raw_content)
        o4 == inline_filename(o3)
    IN  Result(delattr(o4, "url"), NoExc, "GET")

\* the bug of setting alg before the status is looked at
to_inline_data_eager(o, response) ==
    IF ~is_external_data(o) THEN Result(o, NoExc, "none")
    ELSE IF response.status_code = 200
    THEN inline_success(o, response)
    ELSE Result(setattr(o, "alg", "sha256"), Raise("Exception", "status"), "GET")

\* the bug of a missing guard: self.url is read on an inline fragment
to_inline_data_unguarded(o, response) ==
    IF ~is_external_data(o) THEN Result(o, Raise("AttributeError", "url"), "none")
    ELSE IF response.status_code = 200
    THEN inline_success(o, response)
    ELSE Result(o, Raise("Exception", "status"), "GET")

to_inline_data(o, response) ==
    IF ~is_external_data(o) THEN Result(o, NoExc, "none")
    ELSE IF response.status_code = 200
    THEN inline_success(o, response)
    ELSE Result(o, Raise("Exception", "status"), "GET")

(***************************************************************************)
(* Dialog.to_dict().  party_history is never passed, so lines 268-271 do   *)
(* nothing.                                                                *)
(***************************************************************************)
\* datetime.now().isoformat()
Now == "now"

\* `v is None`, for the value of attribute k
StrAttrs == {"filename", "url"}
AtomAttrs == {"type", "start", "mimetype", "alg", "encoding", "disposition"}
is_None(k, v) ==
    \/ k \in StrAttrs /\ v = NoneStr
    \/ k \in AtomAttrs /\ v = None

to_dict(o) ==
    LET o1 == IF ~hasattr(o, "start") THEN setattr(o, "start", Now) ELSE o
        dialog_dict == o1
    IN  [obj |-> o1,
         exc |-> NoExc,
         value |-> [k \in {j \in DOMAIN dialog_dict : ~is_None(j, dialog_dict[j])}
                       |-> dialog_dict[k]]]

(***************************************************************************)
(* Dialog.is_external_data_changed()                                       *)
(***************************************************************************)
\* what a query returns, or the exception that leaves it
Value(v, exc) == [value |-> v, exc |-> exc]

\* lines 609-610, the statements inside the try: self.signature is read and
\* decoded, then self.body is read and hashed
changed_try(o) ==
    IF ~hasattr(o, "signature")
    THEN Value(FALSE, Raise("AttributeError", "signature"))
    ELSE LET body_hash == urlsafe_b64decode(encode(o.signature))
         IN  IF ~body_hash.ok
             THEN Value(FALSE, Raise("binascii.Error", "signature"))
             ELSE IF ~hasattr(o, "body")
             THEN Value(FALSE, Raise("AttributeError", "body"))
             ELSE Value(sha256_digest(encode(o.body)) # body_hash.bytes, NoExc)

\* the bug of a missing except clause: the failure leaves the method
is_external_data_changed_uncaught(o) ==
    IF ~is_external_data(o) THEN Value(FALSE, NoExc)
    ELSE changed_try(o)

is_external_data_changed(o) ==
    IF ~is_external_data(o) THEN Value(FALSE, NoExc)
    ELSE LET r == changed_try(o)
         IN  IF r.exc # NoExc THEN Value(TRUE, NoExc) ELSE r

(***************************************************************************)
(* Inputs                                                                  *)
(***************************************************************************)
\* "h/c.mov?t/x": a path ending in a file name, and a query holding a slash
UrlQuery == <<"h", "/", "c", ".", "m", "o", "v", "?", "t", "/", "x">>
\* "h/n"
UrlPlain == <<"h", "/", "n">>
Urls == {UrlQuery, UrlPlain}

\* "f.txt"
FileTxt == <<"f", ".", "t", "x", "t">>
Filenames == {NoneStr, FileTxt}

\* texts over 'A' and U+00E9, which UTF-8 encodes in one and in two bytes
Chars == {65, 233}
Bodies == UNION {[1..n -> Chars] : n \in 0..MaxBodyLen}

\* byte strings over 0xC3 and 0xA9: 0xC3 0xA9 is U+00E9, any other string of them
\* is not UTF-8
Bytes == {195, 169}
RawContents == UNION {[1..n -> Bytes] : n \in 0..MaxRawLen}

Dicts == {EmptyDict, [resolution |-> "720p"], [note |-> "n"]}
VideoDicts == {EmptyDict, [resolution |-> "720p"]}

NotFound == Response(404, None, NoneStr, <<>>)
HeadResponses ==
    {NotFound, Response(200, "video/webm", <<"x">>, <<>>)} \cup
    {Response(200, ct, cl, <<>>) : ct \in {None, "video/webm"}, cl \in {NoneStr, <<"7">>}}
GetResponses ==
    {NotFound} \cup
    {Response(200, ct, NoneStr, raw) : ct \in {None, "text/plain"}, raw \in RawContents}

\* a named parameter, passed unless it is None
arg(k, v, none) == IF v = none THEN EmptyDict ELSE (k :> v)
NoDict == [None |-> 0]
NoBody == <<0>>

\* the constructor calls that start a fragment's life
NamedArgs ==
    {("type" :> type) @@ ("start" :> Datetime) @@ ("parties" :> <<0, 1>>)
        @@ arg("mimetype", mimetype, None) @@ arg("body", body, NoBody)
        @@ arg("url", url, NoneStr) @@ arg("meta", meta, NoDict)
        @@ arg("metadata", metadata, NoDict) :
        type \in {"recording", "video"},
        mimetype \in {None, "audio/wav"},
        body \in {NoBody, <<65>>},
        url \in {NoneStr, UrlQuery},
        meta \in {NoDict, [note |-> "n"]},
        metadata \in {NoDict, [resolution |-> "720p"]}}

\* the constructor calls of every type, start and disposition, with a url, a
\* body, both or neither
AnyNamedArgs ==
    {("type" :> type) @@ ("parties" :> <<0, 1>>)
        @@ arg("start", start, None) @@ arg("disposition", disposition, None)
        @@ arg("mimetype", mimetype, None) @@ arg("url", url, NoneStr)
        @@ arg("body", body, NoBody) :
        type \in VALID_TYPES \cup {"transcription"},
        start \in {None, Datetime, "2024-01-01T00:00:00", "no date"},
        disposition \in {None, "", "busy"},
        mimetype \in {None, "text/plain"},
        url \in {NoneStr, UrlPlain},
        body \in {NoBody, <<65>>}}

AnyKwargs == {EmptyDict, [custom |-> "x"]}

VideoKwargs ==
    {EmptyDict, [type |-> "clip"],
     [mimetype |-> "video/webm", filename |-> FileTxt, resolution |-> "720p"]}

\* the signature add_inline_data gives the body "A", and a text that is not
\* base64 (one character)
SignatureOfA == signature_of(encode(<<65>>))
Malformed == <<65>>

\* the constructor calls that pass a body, a signature and a url
SignedArgs ==
    {("type" :> "recording") @@ ("start" :> Datetime) @@ ("parties" :> <<0, 1>>)
        @@ arg("body", body, NoBody) @@ arg("signature", signature, NoBody)
        @@ arg("url", url, NoneStr) :
        body \in {NoBody, <<65>>, <<233>>},
        signature \in {NoBody, SignatureOfA, Malformed},
        url \in {NoneStr, UrlPlain}}

\* file names: each extension of the table, an upper-case one, an unknown
\* one, none after the dot, no dot, two dots, the empty name and no name
Extensions ==
    {<<"m","p","4">>, <<"m","o","v">>, <<"w","e","b","m">>, <<"a","v","i">>,
     <<"m","k","v">>, <<"m","p","g">>, <<"m","p","e","g">>, <<"f","l","v">>,
     <<"3","g","p">>, <<"m","4","v">>, <<"M","K","V">>, <<"x","y","z">>, <<>>}
VideoFilenames ==
    {<<"c", ".">> \o ext : ext \in Extensions}
        \cup {<<"c">>, <<"a", ".", "b", ".", "m", "o", "v">>, <<>>, NoneStr}

\* the constructor calls of a video fragment with no mimetype
VideoArgs ==
    {("type" :> "video") @@ ("start" :> Datetime) @@ ("parties" :> <<0, 1>>)
        @@ arg("filename", filename, NoneStr) : filename \in VideoFilenames}

\* the URL "h/" followed by a file name
UrlOf(filename) == <<"h", "/">> \o filename

(***************************************************************************)
(* The state machine: one fragment is constructed, then mutated.  `call`   *)
(* and `pre` hold the last call and the object before it, until the caller *)
(* goes on (Return).                                                       *)
(***************************************************************************)
Init ==
    /\ self = NoObject
    /\ pre = NoObject
    /\ call = [op |-> "none"]
    /\ calls = 0

Done(op, args, r) ==
    /\ self' = r.obj
    /\ pre' = self
    /\ call' = [op |-> op, args |-> args, exc |-> r.exc, net |-> r.net]

Idle == call.op = "none"
Alive == Idle /\ self # NoObject /\ calls < MaxCalls

Return ==
    /\ ~Idle
    /\ call' = [op |-> "none"]
    /\ pre' = NoObject
    /\ UNCHANGED <<self, calls>>

Construct ==
    /\ Idle /\ self = NoObject
    /\ \E named \in NamedArgs :
          Done("__init__", [named |-> named, kwargs |-> EmptyDict],
               Dialog_init(named, EmptyDict))
    /\ calls' = 0

ConstructAny ==
    /\ Idle /\ self = NoObject
    /\ \E named \in AnyNamedArgs, kwargs \in AnyKwargs :
          Done("__init__", [named |-> named, kwargs |-> kwargs],
               Dialog_init(named, kwargs))
    /\ calls' = 0

AddExternalData ==
    /\ Alive
    /\ \E url \in Urls, filename \in Filenames \cup {<<>>},
          mimetype \in {None, "video/mp4"}, response \in HeadResponses :
          Done("add_external_data",
               [url |-> url, filename |-> filename, mimetype |-> mimetype,
                response |-> response],
               add_external_data(self, url, filename, mimetype, response))
    /\ calls' = calls + 1

AddInlineData ==
    /\ Alive
    /\ \E body \in Bodies, filename \in Filenames, mimetype \in {None, "text/plain"} :
          Done("add_inline_data",
               [body |-> body, filename |-> filename, mimetype |-> mimetype],
               add_inline_data(self, body, filename, mimetype))
    /\ calls' = calls + 1

AddVideoDataExternal ==
    /\ Alive
    /\ \E metadata \in VideoDicts, kwargs \in VideoKwargs, response \in HeadResponses :
          Done("add_video_data",
               [source |-> UrlQuery, metadata |-> metadata, is_external |-> TRUE,
                kwargs |-> kwargs, response |-> response],
               add_video_data(self, UrlQuery, metadata, TRUE, kwargs, response))
    /\ calls' = calls + 1

AddVideoDataInline ==
    /\ Alive
    /\ \E source \in Bodies, metadata \in VideoDicts, kwargs \in VideoKwargs :
          Done("add_video_data",
               [source |-> source, metadata |-> metadata, is_external |-> FALSE,
                kwargs |-> kwargs],
               add_video_data(self, source, metadata, FALSE, kwargs, NotFound))
    /\ calls' = calls + 1

UpdateVideoMetadata ==
    /\ Alive
    /\ \E metadata \in Dicts :
          Done("update_video_metadata", [metadata |-> metadata],
               update_video_metadata(self, metadata))
    /\ calls' = calls + 1

ToInlineData ==
    /\ Alive
    /\ \E response \in GetResponses :
          Done("to_inline_data", [response |-> response],
               to_inline_data(self, response))
    /\ calls' = calls + 1

ConstructSigned ==
    /\ Idle /\ self = NoObject
    /\ \E named \in SignedArgs :
          Done("__init__", [named |-> named, kwargs |-> EmptyDict],
               Dialog_init(named, EmptyDict))
    /\ calls' = 0

\* the caller assigns the attribute: dialog.body = body
SetBody ==
    /\ Idle /\ self # NoObject /\ hasattr(self, "body")
    /\ \E body \in Bodies \ {self.body} :
          Done("body=", [body |-> body], Result(setattr(self, "body", body), NoExc, "none"))
    /\ UNCHANGED calls

IsExternalDataChanged ==
    /\ Idle /\ self # NoObject
    /\ LET r == is_external_data_changed(self)
       IN  call' = [op |-> "is_external_data_changed", args |-> EmptyDict,
                    exc |-> r.exc, net |-> "none", value |-> r.value]
    /\ pre' = self
    /\ UNCHANGED <<self, calls>>

ToDict ==
    /\ Idle /\ self # NoObject
    /\ LET r == to_dict(self)
       IN  /\ self' = r.obj
           /\ call' = [op |-> "to_dict", args |-> EmptyDict, exc |-> r.exc,
                       net |-> "none", value |-> r.value]
    /\ pre' = self
    /\ UNCHANGED calls

ConstructVideo ==
    /\ Idle /\ self = NoObject
    /\ \E named \in VideoArgs :
          Done("__init__", [named |-> named, kwargs |-> EmptyDict],
               Dialog_init(named, EmptyDict))
    /\ calls' = 0

\* add_video_data(source, is_external=False, filename=filename), and without
\* the filename
AddVideoDataNamed ==
    /\ Alive
    /\ \E source \in {<<65>>}, filename \in VideoFilenames :
          LET kwargs == arg("filename", filename, NoneStr)
          IN  Done("add_video_data",
                   [source |-> source, metadata |-> EmptyDict, is_external |-> FALSE,
                    kwargs |-> kwargs],
                   add_video_data(self, source, EmptyDict, FALSE, kwargs, NotFound))
    /\ calls' = calls + 1

\* add_video_data(url), the file name being the end of the URL
AddVideoDataUrl ==
    /\ Alive
    /\ \E filename \in VideoFilenames \ {NoneStr},
          response \in {Response(200, None, NoneStr, <<>>)} :
          Done("add_video_data",
               [source |-> UrlOf(filename), metadata |-> EmptyDict, is_external |-> TRUE,
                kwargs |-> EmptyDict, response |-> response],
               add_video_data(self, UrlOf(filename), EmptyDict, TRUE, EmptyDict, response))
    /\ calls' = calls + 1

Next ==
    \/ Return
    \/ Construct
    \/ AddExternalData
    \/ AddInlineData
    \/ AddVideoDataExternal
    \/ AddVideoDataInline
    \/ UpdateVideoMetadata
    \/ ToInlineData

Spec == Init /\ [][Next]_vars

\* construction alone, over every type, start and disposition, and the
\* dictionary of the fragment constructed
NextNew ==
    \/ Return
    \/ ConstructAny
    \/ ToDict

SpecNew == Init /\ [][NextNew]_vars

\* signed fragments, built by the constructor or by add_inline_data, altered
\* by the caller and verified
NextVerify ==
    \/ Return
    \/ ConstructSigned
    \/ AddInlineData
    \/ SetBody
    \/ IsExternalDataChanged

SpecVerify == Init /\ [][NextVerify]_vars

\* a video fragment constructed with a file name and no mimetype, then given
\* video data under a file name
NextInfer ==
    \/ Return
    \/ ConstructVideo
    \/ AddVideoDataNamed
    \/ AddVideoDataUrl

SpecInfer == Init /\ [][NextInfer]_vars

(***************************************************************************)
(* What the claims speak of                                                *)
(***************************************************************************)
Exists == self # NoObject
Called(op) == call.op = op
Returned == call.exc = NoExc

\* the path of a URL: what precedes its query string
PathOf(url) ==
    LET q == {i \in 1..Len(url) : url[i] = "?"}
    IN  IF q = {} THEN url
        ELSE SubSeq(url, 1, (CHOOSE i \in q : \A j \in q : i <= j) - 1)

\* the last segment of a URL's path: what follows its last slash
LastPathSegment(url) ==
    LET p == PathOf(url)
        k == CHOOSE i \in 0..Len(p) :
                 /\ i = 0 \/ p[i] = "/"
                 /\ \A j \in (i + 1)..Len(p) : p[j] # "/"
    IN  SubSeq(p, k + 1, Len(p))

\* the URL-safe base64 text of the SHA-256 digest of a byte string
DigestText(raw) == decode(urlsafe_b64encode(sha256_digest(raw))).text

(***************************************************************************)
(* C1: the fragment never has both `body` and `url` set.                   *)
(***************************************************************************)
C1_BodyXorUrl == Exists => ~(hasattr(self, "body") /\ hasattr(self, "url"))

(***************************************************************************)
(* C2: when to_inline_data is called on an EXTERNAL fragment and the GET   *)
(* returns a non-success status, the call raises and every field is as it  *)
(* was before the call; and a call of to_inline_data either leaves the     *)
(* fragment as it was or has updated body, encoding, alg, signature and    *)
(* url together.                                                           *)
(***************************************************************************)
C2_FailedFetchChangesNothing ==
    Called("to_inline_data") =>
        /\ (is_external_data(pre) /\ call.args.response.status_code # 200) =>
               /\ call.exc.kind = "Exception"
               /\ self = pre
        /\ \/ self = pre
           \/ /\ Returned
              /\ ~hasattr(self, "url")
              /\ hasattr(self, "body") /\ hasattr(self, "encoding")
              /\ self.alg = "sha256"
              /\ self.signature = DigestText(call.args.response.content)

C2_Witness ==
    /\ Called("to_inline_data")
    /\ is_external_data(pre)
    /\ call.args.response.status_code # 200
    /\ hasattr(pre, "mimetype")

(***************************************************************************)
(* C3: after to_inline_data succeeds on an EXTERNAL fragment there is no   *)
(* url, body is set, alg is "sha256", signature is the URL-safe base64 of  *)
(* SHA-256 over the raw fetched bytes, a mimetype or filename already set  *)
(* is unchanged, an unset mimetype is the response's content type and an   *)
(* unset filename is the last path segment of the URL.                     *)
(***************************************************************************)
C3_InlineConversion ==
    (Called("to_inline_data") /\ is_external_data(pre) /\ Returned) =>
        /\ ~hasattr(self, "url")
        /\ is_inline_data(self) /\ ~is_external_data(self)
        /\ hasattr(self, "body")
        /\ self.alg = "sha256"
        /\ self.signature = DigestText(call.args.response.content)
        /\ hasattr(pre, "mimetype") => self.mimetype = pre.mimetype
        /\ hasattr(pre, "filename") => self.filename = pre.filename
        /\ ~hasattr(pre, "mimetype") => self.mimetype = call.args.response.content_type
        /\ ~hasattr(pre, "filename") => self.filename = LastPathSegment(pre.url)

(***************************************************************************)
(* C4: to_inline_data on a fragment that is already INLINE makes no        *)
(* request and changes no field; and once a call of to_inline_data has     *)
(* returned, calling it again, whatever the network would answer, makes no *)
(* request and changes nothing.                                            *)
(***************************************************************************)
C4_InlineIsNoOp ==
    Called("to_inline_data") =>
        /\ is_inline_data(pre) =>
               /\ self = pre
               /\ call.net = "none"
               /\ Returned
        /\ Returned =>
               \A response \in GetResponses :
                   to_inline_data(self, response) = Result(self, NoExc, "none")

C4_Witness ==
    /\ Called("to_inline_data")
    /\ is_inline_data(pre)
    /\ hasattr(pre, "body")

(***************************************************************************)
(* C5: after add_inline_data(body, filename, mimetype), called directly or *)
(* by add_video_data, body is the given body, alg is "sha256", encoding is *)
(* "base64url" and signature is the URL-safe base64 of SHA-256 over the    *)
(* body's bytes: the decoded signature is the digest of the stored body.   *)
(***************************************************************************)
C5_InlineSignature ==
    LET given == IF Called("add_inline_data") THEN call.args.body ELSE call.args.source
    IN  (Called("add_inline_data") \/ (Called("add_video_data") /\ ~call.args.is_external)) =>
            /\ Returned
            /\ self.body = given
            /\ self.alg = "sha256"
            /\ self.encoding = "base64url"
            /\ self.signature = DigestText(encode(given))
            /\ urlsafe_b64decode(encode(self.signature))
                   = [ok |-> TRUE, bytes |-> sha256_digest(encode(self.body))]

C5_Witness ==
    /\ Called("add_inline_data")
    /\ call.args.body = <<233>>
    /\ hasattr(pre, "signature") => pre.signature # self.signature

(***************************************************************************)
(* C6: the `meta` map and the `metadata` map hold the same keys with the   *)
(* same values.                                                            *)
(***************************************************************************)
C6_MetaMirrorsMetadata ==
    Exists => /\ hasattr(self, "meta") /\ hasattr(self, "metadata")
              /\ self.meta = self.metadata

(***************************************************************************)
(* C7: the `type` field is a member of the closed set of types.            *)
(***************************************************************************)
C7_TypeIsValid == Exists => self.type \in VALID_TYPES

(***************************************************************************)
(* C8: construction with a type of the closed set succeeds, and            *)
(* construction with any other type raises an error that names the value   *)
(* and creates no fragment.                                                *)
(***************************************************************************)
C8_TypeDecidesConstruction ==
    Called("__init__") =>
        LET type == call.args.named.type
        IN  /\ type \in VALID_TYPES => (Returned /\ Exists)
            /\ type \notin VALID_TYPES =>
                   (call.exc = Raise("ValueError", type) /\ ~Exists)

\* the start passed is a datetime, a string the parser reads, or None
StartReadable(named) ==
    ~hasattr(named, "start") \/ named.start \in {Datetime} \cup Parsable

(***************************************************************************)
(* C8, amended: construction with a type of the closed set succeeds when   *)
(* the start is readable and the type is not "incomplete" or a disposition *)
(* is given; construction with any other type raises an error that names   *)
(* the value and creates no fragment.                                      *)
(***************************************************************************)
C8_TypeDecidesConstructionAmended ==
    Called("__init__") =>
        LET named == call.args.named
        IN  /\ ( /\ named.type \in VALID_TYPES
                 /\ StartReadable(named)
                 /\ (named.type = "incomplete" => hasattr(named, "disposition")) )
               => (Returned /\ Exists /\ self.type = named.type)
            /\ named.type \notin VALID_TYPES =>
                   (call.exc = Raise("ValueError", named.type) /\ ~Exists)

C8_Witness ==
    /\ Called("__init__")
    /\ call.args.named.type = "transcription"
    /\ call.exc = Raise("ValueError", "transcription")

(***************************************************************************)
(* C9: construction with type "incomplete" and no disposition always       *)
(* raises, and construction with type "incomplete" and a disposition       *)
(* always succeeds.                                                        *)
(***************************************************************************)
C9_IncompleteNeedsDisposition ==
    (Called("__init__") /\ call.args.named.type = "incomplete") =>
        /\ ~hasattr(call.args.named, "disposition") => (~Returned /\ ~Exists)
        /\ hasattr(call.args.named, "disposition") => (Returned /\ Exists)

(***************************************************************************)
(* C9, amended: construction with type "incomplete" and no disposition     *)
(* always raises (the disposition error, when the start is readable), and  *)
(* construction with type "incomplete", a disposition and a readable start *)
(* always succeeds and keeps the disposition; the extension fields are on  *)
(* the fragment that the check lets through.                               *)
(***************************************************************************)
C9_IncompleteNeedsDispositionAmended ==
    (Called("__init__") /\ call.args.named.type = "incomplete") =>
        LET named == call.args.named
        IN  /\ ~hasattr(named, "disposition") =>
                   /\ ~Returned /\ ~Exists
                   /\ StartReadable(named) => call.exc = Raise("ValueError", "disposition")
            /\ (hasattr(named, "disposition") /\ StartReadable(named)) =>
                   /\ Returned /\ Exists
                   /\ self.disposition = named.disposition
                   /\ \A k \in DOMAIN call.args.kwargs : self[k] = call.args.kwargs[k]

C9_Witness ==
    /\ Called("__init__")
    /\ call.args.named.type = "incomplete"
    /\ hasattr(call.args.named, "disposition") /\ call.args.named.disposition = ""
    /\ call.args.kwargs # EmptyDict
    /\ Returned /\ Exists

(***************************************************************************)
(* C10: after add_external_data(url, filename, mimetype) succeeds, url is  *)
(* the given url, filename is the supplied filename or else the last path  *)
(* segment of the URL without its query string, mimetype is the supplied   *)
(* mimetype or else the discovered Content-Type, alg is                    *)
(* "external-reference" and encoding is "none"; the discovered             *)
(* Content-Length is stored under metadata["content_length"] exactly when  *)
(* the fragment is classified as video and a content length was returned.  *)
(***************************************************************************)
C10_ExternalReference ==
    (Called("add_external_data") /\ Returned) =>
        LET a == call.args
            length == a.response.content_length
        IN  /\ self.url = a.url
            /\ self.filename = IF truthyStr(a.filename) THEN a.filename
                               ELSE LastPathSegment(a.url)
            /\ self.mimetype = IF truthy(a.mimetype) THEN a.mimetype
                               ELSE a.response.content_type
            /\ self.alg = "external-reference"
            /\ self.encoding = "none"
            /\ IF is_video(self) /\ truthyStr(length)
               THEN self.metadata = update(pre.metadata, [content_length |-> int(length)])
               ELSE self.metadata = pre.metadata

C10_Witness ==
    /\ Called("add_external_data") /\ Returned
    /\ call.args.url = UrlQuery
    /\ call.args.filename = NoneStr
    /\ call.args.mimetype = None
    /\ pre.type # "video"
    /\ self.filename = <<"c", ".", "m", "o", "v">>
    /\ "content_length" \in DOMAIN self.metadata
    /\ self.metadata.content_length = 7

(***************************************************************************)
(* C11: for a fragment that has a body and a signature,                    *)
(* is_external_data_changed reports "changed" exactly when the SHA-256     *)
(* digest of the body differs from the decoded signature; and when the     *)
(* body of a fragment populated by add_inline_data is altered without the  *)
(* signature being recomputed, it reports "changed".                       *)
(***************************************************************************)
C11_ChangedIffDigestDiffers ==
    /\ ( /\ Called("is_external_data_changed")
         /\ hasattr(self, "body") /\ hasattr(self, "signature") ) =>
           call.value = (urlsafe_b64decode(encode(self.signature))
                            # [ok |-> TRUE, bytes |-> sha256_digest(encode(self.body))])
    /\ ( /\ Called("body=")
         /\ hasattr(pre, "alg") /\ pre.alg = "sha256"
         /\ pre.signature = DigestText(encode(pre.body))
         /\ sha256_digest(encode(self.body)) # sha256_digest(encode(pre.body)) ) =>
           is_external_data_changed(self).value

C13_FreshDictionary ==
    Called("to_dict") =>
        LET d == call.value
        IN  /\ is_inline_data(pre) => "url" \notin DOMAIN d
            /\ is_external_data(pre) =>
                   /\ "body" \notin DOMAIN d
                   /\ "signature" \notin DOMAIN d
                   /\ "alg" \in DOMAIN d => d.alg = "external-reference"
            /\ \A k \in DOMAIN d : ~is_None(k, d[k])

\* the file name a call of add_video_data carries, NoneStr when it carries none
NameGiven ==
    IF call.args.is_external THEN LastPathSegment(call.args.source)
    ELSE IF "filename" \in DOMAIN call.args.kwargs THEN call.args.kwargs.filename
    ELSE NoneStr

\* the file name the fragment was constructed with, NoneStr when it had none
NameConstructed == IF hasattr(pre, "filename") THEN pre.filename ELSE NoneStr

(***************************************************************************)
(* C14: for every file name, the empty and the absent one included, the    *)
(* mimetype that construction infers for type "video" with no mimetype is  *)
(* the mimetype add_video_data derives when none is supplied; "c.mkv"      *)
(* gives "video/x-matroska", and an unrecognized or missing extension      *)
(* ("c.xyz", no name) gives "video/mp4".                                   *)
(***************************************************************************)
C14_SameInference ==
    ( /\ Called("add_video_data") /\ Returned
      /\ "mimetype" \notin DOMAIN call.args.kwargs
      /\ pre.type = "video"
      /\ NameGiven = NameConstructed ) =>
        /\ self.mimetype = pre.mimetype
        /\ NameGiven = <<"c", ".", "m", "k", "v">> => self.mimetype = "video/x-matroska"
        /\ NameGiven \in {<<"c", ".", "x", "y", "z">>, <<>>, NoneStr} =>
               self.mimetype = "video/mp4"

\* the texts of at most n characters
Texts(n) == UNION {[1..m -> Chars] : m \in 0..n}

(***************************************************************************)
(* C15: when to_inline_data succeeds, a fragment that was audio or video   *)
(* before the call gets the URL-safe base64 of the raw bytes as body and   *)
(* encoding "base64url"; any other fragment gets the text as body and      *)
(* encoding "none" when the raw bytes are the UTF-8 of a text, and base64  *)
(* with "base64url" when they are not.                                     *)
(***************************************************************************)
C15_EncodingChosen ==
    (Called("to_inline_data") /\ is_external_data(pre) /\ Returned) =>
        LET raw == call.args.response.content
            base64url == /\ encode(self.body) = urlsafe_b64encode(raw)
                         /\ self.encoding = "base64url"
            texts == {t \in Texts(Len(raw)) : encode(t) = raw}
        IN  IF is_audio(pre) \/ is_video(pre) THEN base64url
            ELSE IF texts # {} THEN self.body \in texts /\ self.encoding = "none"
            ELSE base64url

C15_Witness ==
    /\ Called("to_inline_data") /\ is_external_data(pre) /\ Returned
    /\ is_audio(pre) /\ ~is_video(pre)
    /\ call.args.response.content = <<195, 169>>
    /\ self.encoding = "base64url"

(***************************************************************************)
(* C16: after to_inline_data succeeds, the body decoded as its encoding    *)
(* says (UTF-8 bytes for "none", URL-safe base64 decoding for "base64url") *)
(* is exactly the raw bytes fetched, and the SHA-256 digest of those bytes *)
(* is the decoded signature.                                               *)
(***************************************************************************)
C16_Lossless ==
    (Called("to_inline_data") /\ is_external_data(pre) /\ Returned) =>
        LET raw == call.args.response.content
            body == IF self.encoding = "none"
                    THEN [ok |-> TRUE, bytes |-> encode(self.body)]
                    ELSE urlsafe_b64decode(encode(self.body))
        IN  /\ self.encoding \in {"none", "base64url"}
            /\ body = [ok |-> TRUE, bytes |-> raw]
            /\ urlsafe_b64decode(encode(self.signature))
                   = [ok |-> TRUE, bytes |-> sha256_digest(body.bytes)]

C16_Witness ==
    /\ Called("to_inline_data") /\ is_external_data(pre) /\ Returned
    /\ self.encoding = "none"
    /\ self.body = <<233>>
    /\ call.args.response.content = <<195, 169>>

\* every attribute but url
Rest(o) == [k \in DOMAIN o \ {"url"} |-> o[k]]

(***************************************************************************)
(* C17: when the HEAD of add_external_data returns a non-success status,   *)
(* the call raises with url already set to the new URL, so the fragment is *)
(* EXTERNAL afterwards, and mimetype, filename, alg, encoding, body,       *)
(* signature and the metadata maps are as they were before the call.       *)
(***************************************************************************)
C17_FailedHeadKeepsUrl ==
    (Called("add_external_data") /\ call.args.response.status_code # 200) =>
        /\ call.exc.kind = "Exception"
        /\ is_external_data(self)
        /\ self.url = call.args.url
        /\ Rest(self) = Rest(pre)

C17_Witness ==
    /\ Called("add_external_data")
    /\ call.args.response.status_code # 200
    /\ is_inline_data(pre) /\ hasattr(pre, "body")
    /\ is_external_data(self)
    /\ hasattr(self, "body")

=============================================================================
